---- MODULE Spec2Model ----
(***************************************************************************)
(* K-BANK backend: the money-transfer handler, the M-Pesa deposit          *)
(* initiation and the M-Pesa callback handler of backend/server.py, over   *)
(* the users and transactions collections reached through                  *)
(* backend/database.py and the read-through user cache of backend/cache.py.*)
(*                                                                         *)
(* Every request is handled by a coroutine; the coroutines interleave at   *)
(* their awaits.  A step of the model is the code between two awaits that  *)
(* touch the store, the cache or the payment provider.  Amounts are whole  *)
(* shillings (the code keeps them as floats).                              *)
(***************************************************************************)
EXTENDS Integers, Sequences, FiniteSets, TLC

(***************************************************************************)
(* Bounds of the model                                                     *)
(***************************************************************************)
\* requests accepted in one rate-limiter window of the behaviours of Spec
MaxRequests == 3

\* requests accepted in the behaviours of SpecCacheDown
MaxRequestsCacheDown == 2

\* requests accepted in the behaviours of SpecAccounts
MaxRequestsAccounts == 2

\* requests accepted in the behaviours of SpecListing
MaxRequestsListing == 3

\* login and logout requests accepted in the behaviours of SpecSessions
MaxRequestsSessions == 3

\* login requests accepted in the behaviours of SpecLogin
MaxRequestsLogin == 5

\* requests that arrive in SpecSequential
MaxRequestsSequential == 3

\* calls of the DatabaseManager in SpecBalanceCache
MaxRequestsBalanceCache == 4

\* requests that arrive in SpecMfa
MaxRequestsMfa == 3

\* concurrently running request handlers
Procs == {"p1", "p2"}

\* X is a registered customer, Y a registered admin, Z a deactivated customer
Accounts == {"X", "Y", "Z"}

\* the users who hold a token and send requests
Callers == {"X", "Y"}

\* the customer who deposits through M-Pesa
Depositors == {"X"}

\* to_account values a transfer request may carry
ToAccounts == Accounts \cup {"INVALID_ACCOUNT"}

\* amounts a transfer request may carry
TransferAmounts == {600, 60000}

\* amounts a deposit request may carry (MpesaPayment.amount: gt 0, le 50000)
DepositAmounts == {500}

\* CheckoutRequestIDs: the n-th one the provider issues, one it never issued,
\* an absent one, and None
CheckoutRequestID(n) == "ws_CO_" \o ToString(n)
UnknownCode == "zzz-unknown"
MissingCode == ""
NoCode == "None"

\* Amount items a success callback may carry: none, the paid amount, a negative one
CallbackAmounts == {<<>>, <<500>>, <<-500>>}

\* ResultCode values of a callback: success, cancelled by the user
ResultCodes == {0, 1032}

\* emails a registration or a login may carry: one no user has, X's
\* (the email of a registered user is written as its account number)
NewEmail == "W"
Emails == {NewEmail, "X"}

\* passwords a login may carry: the user's, another one
Passwords == {"good", "bad"}

\* the emails of the users whose document has mfa_enabled set (no endpoint of
\* server.py sets it: register_user writes False at line 380; it is set in
\* the users collection directly)
MfaEmails == {"Y"}

\* UserLogin.mfa_code of a login: absent, the current code, another one
MfaCodes == {"none", "valid", "invalid"}

\* the emails the login rate limiter keeps a window for
LoginEmails == Emails \cup MfaEmails

\* f"KB{uuid}": the account number of the n-th user registered after the start
NewAccount(n) == "KB" \o ToString(n)

\* ResultDesc of a failure callback: absent, or the provider's text
ResultDescs == {<<>>, <<"Request cancelled by user">>}

(***************************************************************************)
(* Program constants                                                       *)
(***************************************************************************)
\* config.py: rate_limit_per_minute
rate_limit_per_minute == 100

\* server.py register_user: welcome bonus of a customer, opening balance of an admin
CustomerOpeningBalance == 1000
AdminOpeningBalance == 0

\* config.py: max_login_attempts
max_login_attempts == 5

\* server.py login: is_rate_limited(email_key, limit=5, window=900)
LoginRateLimit == 5

role == [a \in Accounts |-> IF a = "Y" THEN "admin" ELSE "customer"]

\* users.mfa_enabled; a user registered after the start has False (line 380)
mfa_enabled(user_doc) == user_doc \in MfaEmails

\* security.py validate_transaction_limits: limits[role]["single"]
SingleLimit(user_role) == IF user_role = "admin" THEN 500000 ELSE 50000

VARIABLES
    balance,        \* users.balance, by account
    is_active,      \* users.is_active, by account
    email,          \* users.email, by account
    login_attempts, \* users.login_attempts, by account
    locked_until,   \* users.locked_until is set and lies in the future, by account
    login_attempt_docs, \* number of documents in the login_attempts collection
    failed_logins,  \* by email, the logins answered 401 for their password since the
                    \* last login that was answered with a token (the login_attempts
                    \* documents "invalid_password" after the last one with success)
    indexes_created,    \* DatabaseManager.indexes_created: the unique indexes exist
    mfa_tokens,     \* the emails login has answered with a token {"sub": email,
                    \* "mfa_pending": True} (lines 480-483), held by the clients
    transactions,   \* the transactions collection, in insertion order
    user_cache,     \* cache key user:email:<email>: <<>> or <<balance of the cached record>>
    account_cache,  \* cache key user:account:<account_number>: <<>> or <<balance of
                    \* the cached record>>
    redis_up,       \* the Redis server is reachable (CacheManager.redis_async can connect)
    sessions,       \* cache key user_sessions:<user>: the session ids listed, by account
    session_keys,   \* the cache keys session:<id> that exist: [id, user_id, refreshed],
                    \* refreshed: the key's TTL was set after the TTL of its user's
                    \* user_sessions key
    session_ids,    \* number of session ids generated
    tx_cache,       \* cache key transactions:<account>:1:20:None:None: <<>> or <<total_count>>
    attempts,       \* RateLimiter.attempts[client]: attempts inside the window
    login_window,   \* RateLimiter.attempts["login:<email>"]: attempts inside the window
    issued,         \* number of CheckoutRequestIDs the provider has issued
    timed_out,      \* the payment requests the provider accepted whose answer was lost
    pc,             \* position of each handler
    req,            \* the request a handler serves
    frame,          \* the handler's local variables, and what it saw (solo, before)
    resp            \* the response to the handler's last request

vars == <<balance, is_active, email, login_attempts, locked_until, login_attempt_docs,
          failed_logins, indexes_created, mfa_tokens, transactions, user_cache, redis_up,
          account_cache, sessions, session_keys,
          session_ids, tx_cache,
          attempts, login_window, issued, timed_out, pc, req, frame, resp>>

\* the store but for the balances and the transactions, and the temporary
\* tokens handed out
auth_store == <<is_active, email, login_attempts, locked_until, login_attempt_docs,
                failed_logins, indexes_created, mfa_tokens>>

store == <<balance, auth_store, transactions>>

provider == <<issued, timed_out>>

\* the cache but for the user:email keys
session_state == <<sessions, session_keys, session_ids>>

cache_rest == <<redis_up, account_cache, session_state, tx_cache>>

cache == <<user_cache, cache_rest>>

limiter == <<attempts, login_window>>

(***************************************************************************)
(* Values                                                                  *)
(***************************************************************************)
NoReq == [kind |-> "none", user |-> "X", to_account |-> "X", amount |-> 0,
          body |-> "json", code |-> MissingCode, result_code |-> 0, cb_amount |-> <<>>,
          result_desc |-> <<>>, password |-> "good", mfa_code |-> "none",
          mfa_pending |-> FALSE]

\* current_user:      balance of the record get_current_user returned
\* sender_updated:    create_transfer, result of the debit ("unset" before it)
\* recipient_updated: create_transfer, result of the credit
\* transaction:       mpesa_callback, index of the record find_one returned
\* transaction_status: mpesa_callback, transaction["status"] of that record
\* checkout:          mpesa_deposit, result.get("CheckoutRequestID")
\* solo:              no other handler has run since this request arrived
\* before:            the stored balances right before this handler's debit
\* user_doc:          login, account number of the document find_one returned
\* failed_attempts:   login, user_doc["login_attempts"]
\* locked:            login, user_doc["locked_until"] is set and in the future
NoFrame == [current_user |-> 0, sender_updated |-> "unset", recipient_updated |-> "unset",
            transaction |-> 0, transaction_status |-> "none", checkout |-> NoCode,
            solo |-> FALSE, before |-> [a \in Accounts |-> 0],
            user_doc |-> NoCode, failed_attempts |-> 0, locked |-> FALSE]

NoResp == [route |-> "none", status |-> 0, detail |-> "", ResultCode |-> -1,
           transaction_id |-> 0, total_count |-> 0, balance |-> -1]

HttpError(status, detail) ==
    [NoResp EXCEPT !.status = status, !.detail = detail]
\* a 200 body carrying "transaction_id" (0 stands for None)
Ok(detail, id) ==
    [NoResp EXCEPT !.status = 200, !.detail = detail, !.transaction_id = id]
\* mpesa_callback's acknowledgment {"ResultCode": code, "ResultDesc": desc}
Ack(code, desc) ==
    [NoResp EXCEPT !.status = 200, !.detail = desc, !.ResultCode = code]

\* the users registered and the empty collections the handlers start from
Boot ==
    /\ balance = [a \in Accounts |->
                    IF role[a] = "customer" THEN CustomerOpeningBalance
                                            ELSE AdminOpeningBalance]
    /\ is_active = [a \in Accounts |-> a # "Z"]
    /\ email = [a \in Accounts |-> a]
    /\ login_attempts = [a \in Accounts |-> 0]
    /\ locked_until = [a \in Accounts |-> FALSE]
    /\ login_attempt_docs = 0
    /\ failed_logins = [e \in LoginEmails |-> 0]
    /\ mfa_tokens = {}
    /\ account_cache = [a \in Accounts |-> <<>>]
    /\ sessions = [a \in Accounts |-> {}]
    /\ session_keys = {}
    /\ session_ids = 0
    /\ tx_cache = [a \in Accounts |-> <<>>]
    /\ login_window = [e \in LoginEmails |-> 0]
    /\ transactions = <<>>
    /\ attempts = 0
    /\ issued = 0
    /\ timed_out = {}
    /\ pc = [p \in Procs |-> "idle"]
    /\ req = [p \in Procs |-> NoReq]
    /\ frame = [p \in Procs |-> NoFrame]
    /\ resp = [p \in Procs |-> NoResp]

Init ==
    /\ Boot
    /\ user_cache = [a \in Accounts |-> <<>>]
    /\ redis_up = TRUE
    /\ indexes_created = TRUE

\* create_indexes succeeded or failed at startup (database.py 40-79: a failure
\* is logged and the application runs without the indexes)
InitAccounts ==
    /\ Boot
    /\ user_cache = [a \in Accounts |-> <<>>]
    /\ redis_up = TRUE
    /\ indexes_created \in BOOLEAN

\* Redis became unreachable after the callers' records had or had not been
\* cached (with the balances of that time, the opening balances)
InitCacheDown ==
    /\ Boot
    /\ user_cache \in [Accounts -> {<<>>, <<CustomerOpeningBalance>>, <<AdminOpeningBalance>>}]
    /\ \A a \in Accounts :
          user_cache[a] # <<>> => a \in Callers /\ user_cache[a] = <<balance[a]>>
    /\ redis_up = FALSE
    /\ indexes_created = TRUE

(***************************************************************************)
(* Store and cache operations                                              *)
(***************************************************************************)
\* the filter without the amount: {"balance": {"$gte": 0}} for debits too
BalanceFilterZero(bal, amount_delta) == bal >= 0

\* the filter without abs(): {"balance": {"$gte": amount_delta}}
BalanceFilterNoAbs(bal, amount_delta) == bal >= amount_delta

\* database.py update_user_balance: the filter of update_one on the balance
BalanceFilter(bal, amount_delta) ==
    bal >= (IF amount_delta < 0 THEN -amount_delta ELSE 0)

\* database.py update_user_balance: one conditional $inc; TRUE iff modified_count = 1.
\* db_up = FALSE is update_one raising, which the except turns into False.
UpdateMatches(account_number, amount_delta, db_up) ==
    /\ db_up
    /\ account_number \in DOMAIN balance
    /\ BalanceFilter(balance[account_number], amount_delta)

BalanceAfter(account_number, amount_delta, db_up) ==
    IF UpdateMatches(account_number, amount_delta, db_up)
    THEN [balance EXCEPT ![account_number] = @ + amount_delta]
    ELSE balance

Flag(b) == IF b THEN "yes" ELSE "no"

\* the lookup with line 646's is_active test left out
RecipientLookupAnyStatus(account_number, db_up) ==
    IF account_number \in DOMAIN balance /\ db_up THEN "active" ELSE "missing"

\* database.py get_user_by_account_number as create_transfer uses it: the
\* fields it reads (existence, is_active) never change, so a cached record
\* and the stored one agree on them.  db_up = FALSE: find_one raises, None.
RecipientLookup(account_number, db_up) ==
    IF account_number \in DOMAIN balance /\ db_up
    THEN IF is_active[account_number] THEN "active" ELSE "inactive"
    ELSE "missing"

\* the record create_transfer builds (lines 650-660) with the given status.
\* completed_at is absent (0) in a new record; the n-th $set of it by
\* mpesa_callback stores the time of that write, which is kept as n
TransferRecord(p, status) ==
    [from_account |-> req[p].user, to_account |-> req[p].to_account,
     amount |-> req[p].amount, transaction_type |-> "transfer",
     status |-> status, mpesa_code |-> NoCode, mpesa_receipt_number |-> NoCode,
     failure_reason |-> NoCode, completed_at |-> 0]

\* database.py get_transactions_paginated, line 158: the cache key of the
\* first page with the default limit and no filter
TxCacheKey(account_number) == "transactions:" \o account_number \o ":1:20:None:None"

\* database.py create_transaction, lines 234-237: the keys it deletes, one for
\* each of from_account and to_account the record has
InvalidatedKeys(record) ==
    {"transactions:" \o a \o ":*" :
        a \in {record.from_account, record.to_account} \ {NoCode}}

\* cache.py adelete (157-170) of those keys: redis DEL removes the keys of
\* exactly these names; cache_up = FALSE: the calls fail
TxCacheAfterCreate(record, cache_up) ==
    [a \in DOMAIN tx_cache |->
        IF cache_up /\ TxCacheKey(a) \in InvalidatedKeys(record) THEN <<>> ELSE tx_cache[a]]

\* the handler returns or raises: its frame is gone, the response remains
Return(p, r) ==
    /\ pc' = [pc EXCEPT ![p] = "idle"]
    /\ resp' = [resp EXCEPT ![p] = [r EXCEPT !.route = req[p].kind]]
    /\ req' = [req EXCEPT ![p] = NoReq]
    /\ frame' = [frame EXCEPT ![p] = NoFrame]

Goto(p, label, f) ==
    /\ pc' = [pc EXCEPT ![p] = label]
    /\ frame' = [frame EXCEPT ![p] = f]
    /\ UNCHANGED <<resp, req>>

(***************************************************************************)
(* Request arrival: rate_limit_middleware, then the route                  *)
(***************************************************************************)
\* security.py RateLimiter.is_rate_limited for the client address
is_rate_limited == attempts >= rate_limit_per_minute

\* handler slots are interchangeable: a request takes the first free one
FreeSlot(p) ==
    /\ pc[p] = "idle"
    /\ p = "p2" => pc["p1"] # "idle"

\* a request passes the middleware and its handler starts
Begin(p, r, label) ==
    /\ FreeSlot(p)
    /\ ~is_rate_limited
    /\ attempts' = attempts + 1
    /\ req' = [req EXCEPT ![p] = r]
    /\ pc' = [pc EXCEPT ![p] = label]
    /\ resp' = [resp EXCEPT ![p] = NoResp]
    /\ frame' = [q \in Procs |->
                  IF q = p
                  THEN [NoFrame EXCEPT !.solo = \A o \in Procs \ {p} : pc[o] = "idle"]
                  ELSE [frame[q] EXCEPT !.solo = FALSE]]
    /\ UNCHANGED <<store, cache, login_window, provider>>

(***************************************************************************)
(* get_current_user (server.py 191-215) with get_user_by_email             *)
(* (database.py 81-102): the caller's record from the cache or the store.  *)
(* cache_up = FALSE is the cache being unreachable for this call (aget     *)
(* returns None, aset returns False); db_up = FALSE is find_one raising.   *)
(***************************************************************************)
\* cache.py aget/aset/adelete: without a connection (redis_async is None and
\* setup_async_redis cannot connect) every call fails; with one, a call may
\* still fail (the except branches)
CacheReplies == IF redis_up THEN BOOLEAN ELSE {FALSE}

\* aget answering from the stored key although the call failed
CacheHitAnyway(u, cache_up) == user_cache[u] # <<>>

CacheHit(u, cache_up) == cache_up /\ user_cache[u] # <<>>

UserFound(u, cache_up, db_up) == CacheHit(u, cache_up) \/ db_up

UserBalanceSeen(u, cache_up) ==
    IF CacheHit(u, cache_up) THEN user_cache[u][1] ELSE balance[u]

CacheAfterLookup(u, cache_up, db_up) ==
    IF ~CacheHit(u, cache_up) /\ db_up /\ cache_up
    THEN [user_cache EXCEPT ![u] = <<balance[u]>>]
    ELSE user_cache

Authenticated(u, cache_up, db_up) == UserFound(u, cache_up, db_up) /\ is_active[u]

(***************************************************************************)
(* create_transfer (server.py 609-716)                                     *)
(***************************************************************************)
BeginTransfer(p) ==
    \E u \in Callers, to \in ToAccounts, amt \in TransferAmounts :
        Begin(p, [NoReq EXCEPT !.kind = "transfer", !.user = u,
                               !.to_account = to, !.amount = amt], "t_auth")

\* lines 612 and 618-639: authentication, limit check, check of the balance
\* in the record get_current_user returned
TransferAuth(p) ==
    /\ pc[p] = "t_auth"
    /\ \E cache_up \in CacheReplies, db_up \in BOOLEAN :
        LET u == req[p].user
            seen == UserBalanceSeen(u, cache_up)
        IN  /\ user_cache' = CacheAfterLookup(u, cache_up, db_up)
            /\ IF ~Authenticated(u, cache_up, db_up)
               THEN Return(p, HttpError(401, "User not found or inactive"))
               ELSE IF req[p].amount > SingleLimit(role[u])
               THEN Return(p, HttpError(400, "Amount exceeds single transaction limit"))
               ELSE IF seen < req[p].amount
               THEN Return(p, HttpError(400, "Insufficient funds"))
               ELSE Goto(p, "t_recipient", [frame[p] EXCEPT !.current_user = seen])
    /\ UNCHANGED <<store, cache_rest, limiter, provider>>

\* lines 641-664: recipient lookup, record construction, signature.
\* sign_transaction json-serialises the record, which holds a datetime; with
\* the stock encoder that raises TypeError outside the try block (a 500 with
\* nothing changed).  signed = TRUE is the signature being produced.
TransferRecipient(p) ==
    /\ pc[p] = "t_recipient"
    /\ \E db_up, signed \in BOOLEAN :
        LET found == RecipientLookup(req[p].to_account, db_up)
        IN  IF found = "missing"
            THEN Return(p, HttpError(404, "Recipient account not found"))
            ELSE IF found = "inactive"
            THEN Return(p, HttpError(400, "Recipient account is inactive"))
            ELSE IF ~signed
            THEN Return(p, HttpError(500, "Internal Server Error"))
            ELSE Goto(p, "t_debit", frame[p])
    /\ UNCHANGED <<store, cache, limiter, provider>>

\* lines 668-671: the store applies (or not) the conditional debit
TransferDebit(p) ==
    /\ pc[p] = "t_debit"
    /\ \E db_up \in BOOLEAN :
        LET u == req[p].user
        IN  /\ balance' = BalanceAfter(u, -req[p].amount, db_up)
            /\ Goto(p, "t_credit",
                    [frame[p] EXCEPT
                        !.sender_updated = Flag(UpdateMatches(u, -req[p].amount, db_up)),
                        !.before = balance])
    /\ UNCHANGED <<auth_store, transactions, cache, limiter, provider>>

\* lines 673-679: the handler resumes with the debit's result; it raises, or
\* the store applies (or not) the credit
TransferCredit(p) ==
    /\ pc[p] = "t_credit"
    /\ IF frame[p].sender_updated = "no"
       THEN /\ Return(p, HttpError(400, "Insufficient funds"))
            /\ UNCHANGED balance
       ELSE \E db_up \in BOOLEAN :
            LET to == req[p].to_account
            IN  /\ balance' = BalanceAfter(to, req[p].amount, db_up)
                /\ Goto(p, "t_finish",
                        [frame[p] EXCEPT
                            !.recipient_updated = Flag(UpdateMatches(to, req[p].amount, db_up))])
    /\ UNCHANGED <<auth_store, transactions, cache, limiter, provider>>

\* lines 681-701 with a failed insertion of the record reported as a failure
TransferCompleteOrFail(p) ==
    /\ pc[p] = "t_finish"
    /\ frame[p].recipient_updated = "yes"
    /\ \E db_up \in BOOLEAN, cache_up \in CacheReplies :
        /\ transactions' = IF db_up
                           THEN Append(transactions, TransferRecord(p, "completed"))
                           ELSE transactions
        /\ tx_cache' = IF db_up
                       THEN TxCacheAfterCreate(TransferRecord(p, "completed"), cache_up)
                       ELSE tx_cache
        /\ IF db_up
           THEN Return(p, Ok("Transfer successful", Len(transactions) + 1))
           ELSE Return(p, HttpError(500, "Transfer failed"))
    /\ UNCHANGED <<balance, auth_store, user_cache, redis_up, account_cache,
                   session_state, limiter,
                   provider>>

\* lines 681-701: the completed record (database.py create_transaction returns
\* None when insert_one raises) and the success response
TransferComplete(p) ==
    /\ pc[p] = "t_finish"
    /\ frame[p].recipient_updated = "yes"
    /\ \E db_up \in BOOLEAN, cache_up \in CacheReplies :
        /\ transactions' = IF db_up
                           THEN Append(transactions, TransferRecord(p, "completed"))
                           ELSE transactions
        /\ tx_cache' = IF db_up
                       THEN TxCacheAfterCreate(TransferRecord(p, "completed"), cache_up)
                       ELSE tx_cache
        /\ Return(p, Ok("Transfer successful", IF db_up THEN Len(transactions) + 1 ELSE 0))
    /\ UNCHANGED <<balance, auth_store, user_cache, redis_up, account_cache,
                   session_state, limiter,
                   provider>>

\* lines 702-711: the re-credit of the sender, its result dropped, then the
\* HTTPException, which the handler re-raises without writing a record
TransferRollback(p) ==
    /\ pc[p] = "t_finish"
    /\ frame[p].recipient_updated = "no"
    /\ \E db_up \in BOOLEAN :
        balance' = BalanceAfter(req[p].user, req[p].amount, db_up)
    /\ Return(p, HttpError(500, "Transfer failed - recipient update failed"))
    /\ UNCHANGED <<auth_store, transactions, cache, limiter, provider>>

(***************************************************************************)
(* mpesa_deposit (server.py 742-792) with initiate_stk_push (268-320)      *)
(***************************************************************************)
BeginDeposit(p) ==
    \E u \in Depositors, acct \in Callers, amt \in DepositAmounts :
        Begin(p, [NoReq EXCEPT !.kind = "deposit", !.user = u,
                               !.to_account = acct, !.amount = amt], "d_auth")

\* lines 745 and 750-757 with the own-account check of line 750 left out
DepositAuthAnyAccount(p) ==
    /\ pc[p] = "d_auth"
    /\ \E cache_up \in CacheReplies, db_up \in BOOLEAN :
        LET u == req[p].user
        IN  /\ user_cache' = CacheAfterLookup(u, cache_up, db_up)
            /\ IF ~Authenticated(u, cache_up, db_up)
               THEN Return(p, HttpError(401, "User not found or inactive"))
               ELSE Goto(p, "d_push",
                         [frame[p] EXCEPT !.current_user = UserBalanceSeen(u, cache_up)])
    /\ UNCHANGED <<store, cache_rest, limiter, provider>>

\* lines 745 and 750-757: authentication, own-account check
DepositAuth(p) ==
    /\ pc[p] = "d_auth"
    /\ \E cache_up \in CacheReplies, db_up \in BOOLEAN :
        LET u == req[p].user
        IN  /\ user_cache' = CacheAfterLookup(u, cache_up, db_up)
            /\ IF ~Authenticated(u, cache_up, db_up)
               THEN Return(p, HttpError(401, "User not found or inactive"))
               ELSE IF req[p].to_account # u
               THEN Return(p, HttpError(403, "Can only deposit to your own account"))
               ELSE Goto(p, "d_push",
                         [frame[p] EXCEPT !.current_user = UserBalanceSeen(u, cache_up)])
    /\ UNCHANGED <<store, cache_rest, limiter, provider>>

\* what the provider does with the two calls of initiate_stk_push:
\*   "no_token"  get_mpesa_access_token returns None (timeout, error, non-200)
\*   "error"     the STK-push call raises before the provider accepts
\*   "timeout"   the provider accepts, the answer does not arrive within 30 s
\*   "refused"   the provider answers with a JSON error body (no CheckoutRequestID)
\*   "accepted"  the provider accepts and answers with the CheckoutRequestID
PushOutcomes == {"no_token", "error", "timeout", "refused", "accepted"}

\* lines 759-765 with 268-320
DepositPush(p) ==
    /\ pc[p] = "d_push"
    /\ \E outcome \in PushOutcomes :
        /\ issued' = IF outcome \in {"timeout", "accepted"} THEN issued + 1 ELSE issued
        /\ timed_out' = IF outcome = "timeout"
                         THEN timed_out \cup {[code |-> CheckoutRequestID(issued + 1),
                                               to_account |-> req[p].to_account,
                                               amount |-> req[p].amount]}
                         ELSE timed_out
        /\ CASE outcome = "no_token" ->
                    Return(p, HttpError(503, "M-Pesa service unavailable"))
             [] outcome \in {"error", "timeout"} ->
                    Return(p, HttpError(503, "M-Pesa service error"))
             [] outcome = "refused" ->
                    Goto(p, "d_record", [frame[p] EXCEPT !.checkout = NoCode])
             [] outcome = "accepted" ->
                    Goto(p, "d_record",
                         [frame[p] EXCEPT !.checkout = CheckoutRequestID(issued + 1)])
    /\ UNCHANGED <<store, cache, limiter>>

\* the record mpesa_deposit builds (lines 768-778)
DepositRecord(p) ==
    [from_account |-> NoCode, to_account |-> req[p].to_account,
     amount |-> req[p].amount, transaction_type |-> "mpesa_deposit",
     status |-> "pending", mpesa_code |-> frame[p].checkout,
     mpesa_receipt_number |-> NoCode, failure_reason |-> NoCode, completed_at |-> 0]

\* lines 780-786: the pending record (create_transaction returns None when
\* insert_one raises) and the response
DepositCreate(p) ==
    /\ pc[p] = "d_record"
    /\ \E db_up \in BOOLEAN, cache_up \in CacheReplies :
        /\ transactions' = IF db_up THEN Append(transactions, DepositRecord(p))
                                    ELSE transactions
        /\ tx_cache' = IF db_up THEN TxCacheAfterCreate(DepositRecord(p), cache_up)
                                ELSE tx_cache
        /\ Return(p, Ok("STK Push sent to your phone",
                        IF db_up THEN Len(transactions) + 1 ELSE 0))
    /\ UNCHANGED <<balance, auth_store, user_cache, redis_up, account_cache,
                   session_state, limiter,
                   provider>>

(***************************************************************************)
(* mpesa_callback (server.py 794-891)                                      *)
(***************************************************************************)
\* the endpoint takes no credentials: any payload may arrive at any time
CallbackCodes == {CheckoutRequestID(n) : n \in 1..issued} \cup {UnknownCode}

CallbackPayloads ==
    {[NoReq EXCEPT !.kind = "callback", !.body = "garbage"],
     [NoReq EXCEPT !.kind = "callback", !.code = MissingCode]}
    \cup {[NoReq EXCEPT !.kind = "callback", !.code = c, !.result_code = 0,
                        !.cb_amount = a] : c \in CallbackCodes, a \in CallbackAmounts}
    \cup {[NoReq EXCEPT !.kind = "callback", !.code = c, !.result_code = rc,
                        !.result_desc = d]
             : c \in CallbackCodes, rc \in ResultCodes \ {0}, d \in ResultDescs}

BeginCallback(p) ==
    \E payload \in CallbackPayloads : Begin(p, payload, "c_find")

\* transactions.find_one({"mpesa_code": id}): the first record with that code, 0 if none
FindByCode(id) ==
    IF \E i \in 1..Len(transactions) : transactions[i].mpesa_code = id
    THEN CHOOSE i \in 1..Len(transactions) :
            /\ transactions[i].mpesa_code = id
            /\ \A j \in 1..(i - 1) : transactions[j].mpesa_code # id
    ELSE 0

\* lines 798-816: parse, CheckoutRequestID check, lookup.  request.json()
\* raising on an unparseable body and find_one raising end in the except.
CallbackFind(p) ==
    /\ pc[p] = "c_find"
    /\ \E db_up \in BOOLEAN :
        LET found == FindByCode(req[p].code)
        IN  IF req[p].body # "json"
            THEN Return(p, Ack(1, "Internal server error"))
            ELSE IF req[p].code = MissingCode
            THEN Return(p, Ack(1, "Missing CheckoutRequestID"))
            ELSE IF ~db_up
            THEN Return(p, Ack(1, "Internal server error"))
            ELSE IF found = 0
            THEN Return(p, Ack(1, "Transaction not found"))
            ELSE Goto(p, "c_status",
                      [frame[p] EXCEPT !.transaction = found,
                                       !.transaction_status = transactions[found].status])
    /\ UNCHANGED <<store, cache, limiter, provider>>

\* the $set of lines 834-843 with the status of the failure branch left out
StatusAfterCompleted(result_code) == "completed"

\* the $set of lines 834-843 (success) and 874-883 (failure)
StatusAfter(result_code) == IF result_code = 0 THEN "completed" ELSE "failed"

\* line 872: callback_data.get("ResultDesc", "Unknown error")
FailureReason(result_desc) ==
    IF result_desc = <<>> THEN "Unknown error" ELSE result_desc[1]

\* lines 818-843 and 870-887: update_one by mpesa_code sets the status
\* whatever the record's current status is; a failure callback is then
\* acknowledged, a success callback goes on to the credit
CallbackStatus(p) ==
    /\ pc[p] = "c_status"
    /\ \E db_up \in BOOLEAN :
        LET i == FindByCode(req[p].code)
        IN  IF ~db_up
            THEN /\ Return(p, Ack(1, "Internal server error"))
                 /\ UNCHANGED transactions
            ELSE /\ transactions' =
                        [transactions EXCEPT ![i].status = StatusAfter(req[p].result_code),
                             ![i].mpesa_receipt_number =
                                  IF req[p].result_code = 0 THEN "receipt" ELSE @,
                             ![i].failure_reason =
                                  IF req[p].result_code = 0 THEN @
                                  ELSE FailureReason(req[p].result_desc),
                             ![i].completed_at = @ + 1]
                 /\ IF req[p].result_code = 0
                    THEN Goto(p, "c_credit", frame[p])
                    ELSE Return(p, Ack(0, "Success"))
    /\ UNCHANGED <<balance, auth_store, cache, limiter, provider>>

\* line 848: amount or transaction["amount"]
CreditAmount(cb_amount, requested) ==
    IF cb_amount = <<>> \/ cb_amount = <<0>> THEN requested ELSE cb_amount[1]

\* lines 845-868 and 887: the balance update, then the acknowledgment whether
\* or not the update applied
CallbackCredit(p) ==
    /\ pc[p] = "c_credit"
    /\ \E db_up \in BOOLEAN :
        LET t == transactions[frame[p].transaction]
        IN  balance' = BalanceAfter(t.to_account,
                                    CreditAmount(req[p].cb_amount, t.amount), db_up)
    /\ Return(p, Ack(0, "Success"))
    /\ UNCHANGED <<auth_store, transactions, cache, limiter, provider>>

\* rate_limit_middleware (lines 176-188) refuses a callback of a client that
\* has rate_limit_per_minute attempts inside the window: the HTTPException is
\* raised in the middleware, before the route and its try/except run
CallbackRateLimited(p) ==
    /\ FreeSlot(p)
    /\ is_rate_limited
    /\ resp' = [resp EXCEPT ![p] =
                  [HttpError(429, "Too many requests. Please try again later.")
                       EXCEPT !.route = "callback"]]
    /\ UNCHANGED <<store, cache, limiter, provider, pc, req, frame>>

\* RateLimiter.is_rate_limited drops the attempts older than the window
WindowSlide ==
    /\ attempts > 0
    /\ attempts' = attempts - 1
    /\ UNCHANGED <<store, cache, login_window, provider, pc, req, frame, resp>>

\* the cached user record reaches its TTL (aset(..., 300))
CacheExpire ==
    /\ \E a \in Accounts :
        /\ user_cache[a] # <<>>
        /\ user_cache' = [user_cache EXCEPT ![a] = <<>>]
    /\ UNCHANGED <<store, cache_rest, limiter, provider, pc, req, frame, resp>>

\* the behaviours of Spec accept MaxRequests requests
TransferArrives(p) == attempts < MaxRequests /\ BeginTransfer(p)
DepositArrives(p) == attempts < MaxRequests /\ BeginDeposit(p)
CallbackArrives(p) == attempts < MaxRequests /\ BeginCallback(p)

Next ==
    \/ \E p \in Procs : TransferArrives(p)
    \/ \E p \in Procs : TransferAuth(p)
    \/ \E p \in Procs : TransferRecipient(p)
    \/ \E p \in Procs : TransferDebit(p)
    \/ \E p \in Procs : TransferCredit(p)
    \/ \E p \in Procs : TransferComplete(p)
    \/ \E p \in Procs : TransferRollback(p)
    \/ \E p \in Procs : DepositArrives(p)
    \/ \E p \in Procs : DepositAuth(p)
    \/ \E p \in Procs : DepositPush(p)
    \/ \E p \in Procs : DepositCreate(p)
    \/ \E p \in Procs : CallbackArrives(p)
    \/ \E p \in Procs : CallbackFind(p)
    \/ \E p \in Procs : CallbackStatus(p)
    \/ \E p \in Procs : CallbackCredit(p)
    \/ CacheExpire

Spec == Init /\ [][Next]_vars

\* a busy window of the callback endpoint: callbacks only, as many as arrive
NextCallbacks ==
    \/ \E p \in Procs : BeginCallback(p)
    \/ \E p \in Procs : CallbackFind(p)
    \/ \E p \in Procs : CallbackRateLimited(p)
    \/ WindowSlide

SpecCallbacks == Init /\ [][NextCallbacks]_vars

(***************************************************************************)
(* register_user (server.py 347-409), login (411-558), logout (568-581),   *)
(* get_transactions (718-739) and cleanup_old_data (database.py 406-430)   *)
(***************************************************************************)
\* users registered since the start
NumNew == Cardinality(DOMAIN balance) - Cardinality(Accounts)

\* users.find_one({"email": e}): the first document with that email, the
\* earliest inserted one; NoCode if there is none
FindByEmail(e) ==
    LET old == {a \in Accounts : email[a] = e}
        new == {n \in 1..NumNew : email[NewAccount(n)] = e}
    IN  IF old # {} THEN CHOOSE a \in old : TRUE
        ELSE IF new # {} THEN NewAccount(CHOOSE n \in new : \A m \in new : n <= m)
        ELSE NoCode

\* the function f with the value v at the new key a
Ext(f, a, v) == [x \in DOMAIN f \cup {a} |-> IF x = a THEN v ELSE f[x]]

\* an insertion that also writes the opening balance to the documents already there
InsertUserReplacing(bal, account_number, user_role) ==
    [a \in DOMAIN bal \cup {account_number} |->
        IF user_role = "customer" THEN CustomerOpeningBalance ELSE AdminOpeningBalance]

\* lines 369-389: users.insert_one(user) with the opening balance of line 378
InsertUser(bal, account_number, user_role) ==
    Ext(bal, account_number,
        IF user_role = "customer" THEN CustomerOpeningBalance ELSE AdminOpeningBalance)

BeginRegister(p) ==
    \E e \in Emails :
        Begin(p, [NoReq EXCEPT !.kind = "register", !.user = e], "r_check")

\* lines 351-366: get_user_by_email (cached for a user who sends requests);
\* db_up = FALSE is find_one raising, which get_user_by_email turns into None
RegisterCheck(p) ==
    /\ pc[p] = "r_check"
    /\ \E cache_up \in CacheReplies, db_up \in BOOLEAN :
        LET e == req[p].user
            existing_user == IF e \in Accounts THEN UserFound(e, cache_up, db_up)
                                               ELSE db_up /\ FindByEmail(e) # NoCode
        IN  /\ user_cache' = IF e \in Accounts THEN CacheAfterLookup(e, cache_up, db_up)
                                               ELSE user_cache
            /\ IF existing_user
               THEN Return(p, HttpError(400, "Email already registered"))
               ELSE Goto(p, "r_insert", frame[p])
    /\ UNCHANGED <<store, cache_rest, limiter, provider>>

\* lines 368-409: insert_one of the new document (role customer, a fresh
\* account number); it raises when the store fails or when the unique index
\* on email exists and the email is taken, and the handler does not catch it
RegisterInsert(p) ==
    /\ pc[p] = "r_insert"
    /\ \E cache_up \in CacheReplies, db_up \in BOOLEAN :
        LET e == req[p].user
            account_number == NewAccount(NumNew + 1)
        IN  IF ~db_up \/ (indexes_created /\ FindByEmail(e) # NoCode)
            THEN /\ Return(p, HttpError(500, "Internal Server Error"))
                 /\ UNCHANGED <<balance, is_active, email, login_attempts, locked_until,
                                user_cache>>
            ELSE /\ balance' = InsertUser(balance, account_number, "customer")
                 /\ is_active' = Ext(is_active, account_number, TRUE)
                 /\ email' = Ext(email, account_number, e)
                 /\ login_attempts' = Ext(login_attempts, account_number, 0)
                 /\ locked_until' = Ext(locked_until, account_number, FALSE)
                 /\ user_cache' = IF e \in Accounts /\ cache_up
                                  THEN [user_cache EXCEPT ![e] = <<>>]
                                  ELSE user_cache
                 /\ Return(p, Ok("registered", 0))
    /\ UNCHANGED <<transactions, login_attempt_docs, failed_logins, indexes_created,
                   mfa_tokens,
                   cache_rest, limiter, provider>>

BeginLogin(p) ==
    \E e \in Emails, pw \in Passwords :
        Begin(p, [NoReq EXCEPT !.kind = "login", !.user = e, !.password = pw], "l_find")

\* lines 415-424: the per-email rate limit, then find_one without the cache
LoginFind(p) ==
    /\ pc[p] = "l_find"
    /\ LET e == req[p].user
       IN  IF login_window[e] >= LoginRateLimit
           THEN /\ Return(p, HttpError(429, "Too many login attempts. Please try again in 15 minutes."))
                /\ UNCHANGED login_window
           ELSE /\ login_window' = [login_window EXCEPT ![e] = @ + 1]
                /\ \E db_up \in BOOLEAN :
                    LET user_doc == IF db_up THEN FindByEmail(e) ELSE NoCode
                    IN  Goto(p, "l_write",
                             [frame[p] EXCEPT
                                !.user_doc = user_doc,
                                !.failed_attempts =
                                    IF user_doc = NoCode THEN 0 ELSE login_attempts[user_doc],
                                !.locked = user_doc # NoCode /\ locked_until[user_doc]])
    /\ UNCHANGED <<store, cache, attempts, provider>>

\* the session ids listed under user_sessions:<user_id> ([] when the key is absent)
UserSessions(user_id) == IF user_id \in DOMAIN sessions THEN sessions[user_id] ELSE {}

\* the user's session keys after the TTL of user_sessions:<user_id> was set anew
\* (cache.set(user_sessions_key, ..., expiration)): none of them outlives it
IndexWritten(keys, user_id) ==
    {IF k.user_id = user_id THEN [k EXCEPT !.refreshed = FALSE] ELSE k : k \in keys}

\* SessionManager.create_session (cache.py 225-249), a synchronous call: the
\* session key, then the id appended to the user's list.  outcome "stored":
\* the cache calls succeed; any other: the first set fails or the call raises
create_session(user_id, outcome) ==
    IF outcome = "stored"
    THEN /\ session_ids' = session_ids + 1
         /\ session_keys' = IndexWritten(session_keys, user_id)
                                \cup {[id |-> session_ids + 1, user_id |-> user_id,
                                       refreshed |-> FALSE]}
         /\ sessions' = Ext(sessions, user_id, UserSessions(user_id) \cup {session_ids + 1})
    ELSE UNCHANGED session_state

\* SessionManager.delete_user_sessions (cache.py 296-307) with delete_session
\* (275-294), a synchronous call: every listed session whose key exists is
\* deleted, then the list.  cache_call = FALSE: the cache calls fail, nothing
\* is deleted
delete_user_sessions(user_id, cache_call) ==
    IF cache_call
    THEN /\ session_keys' = {k \in session_keys : k.id \notin UserSessions(user_id)}
         /\ sessions' = [a \in DOMAIN sessions |-> IF a = user_id THEN {} ELSE sessions[a]]
         /\ UNCHANGED session_ids
    ELSE UNCHANGED session_state

\* SessionManager.create_session (cache.py 225-249) uses datetime, which
\* cache.py does not import: as written it raises NameError ("raises"); with
\* the import it stores the session ("stored") or, the cache failing, returns
\* None ("none")
SessionOutcomes == {"raises", "none"} \cup (IF redis_up THEN {"stored"} ELSE {})

\* lines 426-558: the writes of login after the lookup and, for a user with
\* mfa_enabled, the branches of lines 478-503.  None of the store
\* calls is inside a try: written tells how far the handler gets before one
\* raises ("none": the first call raises, "first": the second, "both": none)
LoginWrite(p) ==
    /\ pc[p] = "l_write"
    /\ LET e == req[p].user
           user_doc == frame[p].user_doc
           target == FindByEmail(e)
           failed_attempts == frame[p].failed_attempts + 1
       IN  IF user_doc = NoCode \/ frame[p].locked
           THEN \E db_up \in BOOLEAN :
                /\ login_attempt_docs' = IF db_up THEN login_attempt_docs + 1
                                                  ELSE login_attempt_docs
                /\ Return(p, IF ~db_up THEN HttpError(500, "Internal Server Error")
                             ELSE IF user_doc = NoCode
                             THEN HttpError(401, "Invalid credentials")
                             ELSE HttpError(423, "Account is temporarily locked"))
                /\ UNCHANGED <<login_attempts, locked_until, failed_logins, mfa_tokens,
                               user_cache, session_state>>
           ELSE IF req[p].password # "good"
           THEN \E written \in {"none", "first", "both"} :
                /\ login_attempts' = IF written = "none" THEN login_attempts
                                     ELSE [login_attempts EXCEPT ![target] = failed_attempts]
                /\ locked_until' = IF written # "none" /\ failed_attempts >= max_login_attempts
                                   THEN [locked_until EXCEPT ![target] = TRUE]
                                   ELSE locked_until
                /\ login_attempt_docs' = IF written = "both" THEN login_attempt_docs + 1
                                                             ELSE login_attempt_docs
                /\ failed_logins' = IF written = "both"
                                     THEN [failed_logins EXCEPT ![e] = @ + 1]
                                     ELSE failed_logins
                /\ Return(p, IF written = "both" THEN HttpError(401, "Invalid credentials")
                                                 ELSE HttpError(500, "Internal Server Error"))
                /\ UNCHANGED <<mfa_tokens, user_cache, session_state>>
           ELSE IF mfa_enabled(user_doc) /\ req[p].mfa_code = "none"
           THEN /\ mfa_tokens' = mfa_tokens \cup {e}
                /\ Return(p, Ok("mfa_required", 0))
                /\ UNCHANGED <<login_attempts, locked_until, login_attempt_docs,
                               failed_logins, user_cache, session_state>>
           ELSE IF mfa_enabled(user_doc) /\ req[p].mfa_code # "valid"
           THEN \E db_up \in BOOLEAN :
                /\ login_attempt_docs' = IF db_up THEN login_attempt_docs + 1
                                                  ELSE login_attempt_docs
                /\ Return(p, IF db_up THEN HttpError(401, "Invalid MFA code")
                                      ELSE HttpError(500, "Internal Server Error"))
                /\ UNCHANGED <<login_attempts, locked_until, failed_logins, mfa_tokens,
                               user_cache, session_state>>
           ELSE \E written \in {"none", "first", "both"}, session \in SessionOutcomes,
                   cache_up \in CacheReplies :
                LET done == written = "both" /\ session # "raises"
                IN  /\ login_attempt_docs' = IF written = "none" THEN login_attempt_docs
                                                                ELSE login_attempt_docs + 1
                    /\ login_attempts' = IF written = "both"
                                         THEN [login_attempts EXCEPT ![target] = 0]
                                         ELSE login_attempts
                    /\ locked_until' = IF written = "both"
                                       THEN [locked_until EXCEPT ![target] = FALSE]
                                       ELSE locked_until
                    /\ IF written = "both"
                       THEN create_session(user_doc, session)
                       ELSE UNCHANGED session_state
                    /\ user_cache' = IF done /\ cache_up /\ e \in Accounts
                                     THEN [user_cache EXCEPT ![e] = <<>>]
                                     ELSE user_cache
                    /\ failed_logins' = IF done THEN [failed_logins EXCEPT ![e] = 0]
                                                 ELSE failed_logins
                    /\ Return(p, IF done THEN Ok("bearer", 0)
                                         ELSE HttpError(500, "Internal Server Error"))
                    /\ UNCHANGED mfa_tokens
    /\ UNCHANGED <<balance, is_active, email, indexes_created, transactions,
                   redis_up, account_cache, tx_cache, limiter, provider>>

BeginLogout(p) ==
    \E u \in Callers :
        Begin(p, [NoReq EXCEPT !.kind = "logout", !.user = u], "o_auth")

\* lines 569-581: authentication, then delete_user_sessions, whose cache calls
\* do not raise (cache_call = FALSE: they fail and delete nothing)
Logout(p) ==
    /\ pc[p] = "o_auth"
    /\ \E cache_up \in CacheReplies, db_up \in BOOLEAN, cache_call \in CacheReplies :
        LET u == req[p].user
        IN  /\ user_cache' = CacheAfterLookup(u, cache_up, db_up)
            /\ IF ~Authenticated(u, cache_up, db_up)
               THEN /\ Return(p, HttpError(401, "User not found or inactive"))
                    /\ UNCHANGED session_state
               ELSE /\ delete_user_sessions(u, cache_call)
                    /\ Return(p, Ok("Successfully logged out", 0))
    /\ UNCHANGED <<store, redis_up, account_cache, tx_cache, limiter, provider>>

BeginList(p) ==
    \E u \in Callers :
        Begin(p, [NoReq EXCEPT !.kind = "list", !.user = u], "g_auth")

\* line 724: authentication
ListAuth(p) ==
    /\ pc[p] = "g_auth"
    /\ \E cache_up \in CacheReplies, db_up \in BOOLEAN :
        LET u == req[p].user
        IN  /\ user_cache' = CacheAfterLookup(u, cache_up, db_up)
            /\ IF ~Authenticated(u, cache_up, db_up)
               THEN Return(p, HttpError(401, "User not found or inactive"))
               ELSE Goto(p, "g_read", frame[p])
    /\ UNCHANGED <<store, cache_rest, limiter, provider>>

\* database.py get_transactions_paginated, lines 169-183: count_documents of
\* the records from or to the account
TotalCount(account_number) ==
    Cardinality({i \in 1..Len(transactions) :
                    \/ transactions[i].from_account = account_number
                    \/ transactions[i].to_account = account_number})

\* lines 728-739 with database.py 147-222: the cached result, or the query
\* and its caching for a minute; a raising query gives the empty result
ListRead(p) ==
    /\ pc[p] = "g_read"
    /\ \E cache_up \in CacheReplies, db_up \in BOOLEAN :
        LET u == req[p].user
        IN  IF cache_up /\ tx_cache[u] # <<>>
            THEN /\ Return(p, [Ok("transactions", 0) EXCEPT !.total_count = tx_cache[u][1]])
                 /\ UNCHANGED tx_cache
            ELSE IF db_up
            THEN /\ tx_cache' = IF cache_up THEN [tx_cache EXCEPT ![u] = <<TotalCount(u)>>]
                                            ELSE tx_cache
                 /\ Return(p, [Ok("transactions", 0) EXCEPT !.total_count = TotalCount(u)])
            ELSE /\ Return(p, Ok("transactions", 0))
                 /\ UNCHANGED tx_cache
    /\ UNCHANGED <<store, user_cache, redis_up, account_cache, session_state, limiter,
                   provider>>

\* the cached listing reaches its TTL (aset(..., 60))
TxCacheExpire ==
    /\ \E a \in Accounts :
        /\ tx_cache[a] # <<>>
        /\ tx_cache' = [tx_cache EXCEPT ![a] = <<>>]
    /\ UNCHANGED <<store, user_cache, redis_up, account_cache, session_state, limiter,
                   provider,
                   pc, req, frame, resp>>

\* background_cleanup_task (server.py 323-331) with cleanup_old_data: the
\* login_attempts documents older than the cutoff are deleted (audit_logs and
\* mfa_tokens, also cleaned, hold nothing a handler reads)
Cleanup ==
    /\ \E kept \in 0..login_attempt_docs : login_attempt_docs' = kept
    /\ UNCHANGED <<balance, is_active, email, login_attempts, locked_until,
                   failed_logins, indexes_created, mfa_tokens, transactions, cache,
                   limiter,
                   provider, pc, req, frame, resp>>

\* the behaviours of SpecAccounts accept MaxRequestsAccounts requests
Arrives(p) ==
    /\ attempts < MaxRequestsAccounts
    /\ \/ BeginTransfer(p)
       \/ BeginDeposit(p)
       \/ BeginCallback(p)
       \/ BeginRegister(p)
       \/ BeginLogin(p)
       \/ BeginLogout(p)
       \/ BeginList(p)

NextAccounts ==
    \/ \E p \in Procs : Arrives(p)
    \/ \E p \in Procs : TransferAuth(p)
    \/ \E p \in Procs : TransferRecipient(p)
    \/ \E p \in Procs : TransferDebit(p)
    \/ \E p \in Procs : TransferCredit(p)
    \/ \E p \in Procs : TransferComplete(p)
    \/ \E p \in Procs : TransferRollback(p)
    \/ \E p \in Procs : DepositAuth(p)
    \/ \E p \in Procs : DepositPush(p)
    \/ \E p \in Procs : DepositCreate(p)
    \/ \E p \in Procs : CallbackFind(p)
    \/ \E p \in Procs : CallbackStatus(p)
    \/ \E p \in Procs : CallbackCredit(p)
    \/ \E p \in Procs : RegisterCheck(p)
    \/ \E p \in Procs : RegisterInsert(p)
    \/ \E p \in Procs : LoginFind(p)
    \/ \E p \in Procs : LoginWrite(p)
    \/ \E p \in Procs : Logout(p)
    \/ \E p \in Procs : ListAuth(p)
    \/ \E p \in Procs : ListRead(p)
    \/ CacheExpire
    \/ TxCacheExpire
    \/ Cleanup

SpecAccounts == InitAccounts /\ [][NextAccounts]_vars

(***************************************************************************)
(* get_transactions next to the handlers that create transaction records   *)
(***************************************************************************)
ListingArrives(p) ==
    /\ attempts < MaxRequestsListing
    /\ BeginList(p) \/ BeginTransfer(p) \/ BeginDeposit(p)

NextListing ==
    \/ \E p \in Procs : ListingArrives(p)
    \/ \E p \in Procs : ListAuth(p)
    \/ \E p \in Procs : ListRead(p)
    \/ \E p \in Procs : TransferAuth(p)
    \/ \E p \in Procs : TransferRecipient(p)
    \/ \E p \in Procs : TransferDebit(p)
    \/ \E p \in Procs : TransferCredit(p)
    \/ \E p \in Procs : TransferComplete(p)
    \/ \E p \in Procs : TransferRollback(p)
    \/ \E p \in Procs : DepositAuth(p)
    \/ \E p \in Procs : DepositPush(p)
    \/ \E p \in Procs : DepositCreate(p)
    \/ CacheExpire
    \/ TxCacheExpire

SpecListing == Init /\ [][NextListing]_vars

(***************************************************************************)
(* login on its own, with the passing of time                              *)
(***************************************************************************)
\* RateLimiter.is_rate_limited("login:<email>", limit=5, window=900) drops
\* the attempts older than the window
LoginWindowSlide ==
    /\ \E e \in LoginEmails :
        /\ login_window[e] > 0
        /\ login_window' = [login_window EXCEPT ![e] = @ - 1]
    /\ UNCHANGED <<store, cache, attempts, provider, pc, req, frame, resp>>

\* line 440: the time reaches locked_until (set account_lockout_duration
\* seconds ahead at line 457), the test user_doc["locked_until"] > utcnow()
\* is false from then on
LockExpire ==
    /\ \E a \in DOMAIN locked_until :
        /\ locked_until[a]
        /\ locked_until' = [locked_until EXCEPT ![a] = FALSE]
    /\ UNCHANGED <<balance, is_active, email, login_attempts, login_attempt_docs,
                   failed_logins, indexes_created, mfa_tokens, transactions, cache,
                   limiter,
                   provider, pc, req, frame, resp>>

LoginArrives(p) == attempts < MaxRequestsLogin /\ BeginLogin(p)

NextLogin ==
    \/ \E p \in Procs : LoginArrives(p)
    \/ \E p \in Procs : LoginFind(p)
    \/ \E p \in Procs : LoginWrite(p)
    \/ LoginWindowSlide
    \/ LockExpire

SpecLogin == Init /\ [][NextLogin]_vars

(***************************************************************************)
(* login and logout with the session keys of cache.py SessionManager       *)
(***************************************************************************)
\* SessionManager.get_session (cache.py 251-261) on a session whose key
\* exists: the key is set again with default_expiration, so that it now
\* outlives the user's user_sessions key
GetSession ==
    /\ \E k \in session_keys :
        /\ ~k.refreshed
        /\ session_keys' = (session_keys \ {k}) \cup {[k EXCEPT !.refreshed = TRUE]}
    /\ UNCHANGED <<store, user_cache, redis_up, account_cache, sessions, session_ids,
                   tx_cache,
                   limiter, provider, pc, req, frame, resp>>

\* a session key reaches its TTL (setex(session_key, expiration, ...)); one
\* that outlives the list it is on has not reached it
SessionExpire ==
    /\ \E k \in session_keys :
        /\ ~(k.refreshed /\ k.id \in UserSessions(k.user_id))
        /\ session_keys' = session_keys \ {k}
    /\ UNCHANGED <<store, user_cache, redis_up, account_cache, sessions, session_ids,
                   tx_cache,
                   limiter, provider, pc, req, frame, resp>>

\* the key user_sessions:<user> reaches its TTL, set when a session was last
\* added to the list (cache.py 243): the listed sessions that still exist
\* are those whose TTL was set later
UserSessionsExpire ==
    /\ \E a \in DOMAIN sessions :
        /\ sessions[a] # {}
        /\ \A k \in session_keys : k.id \in sessions[a] => k.refreshed
        /\ sessions' = [sessions EXCEPT ![a] = {}]
    /\ UNCHANGED <<store, user_cache, redis_up, account_cache, session_keys,
                   session_ids, tx_cache,
                   limiter, provider, pc, req, frame, resp>>

SessionArrives(p) ==
    /\ attempts < MaxRequestsSessions
    /\ BeginLogin(p) \/ BeginLogout(p)

NextSessions ==
    \/ \E p \in Procs : SessionArrives(p)
    \/ \E p \in Procs : LoginFind(p)
    \/ \E p \in Procs : LoginWrite(p)
    \/ \E p \in Procs : Logout(p)
    \/ GetSession
    \/ SessionExpire
    \/ UserSessionsExpire
    \/ CacheExpire

SpecSessions == Init /\ [][NextSessions]_vars

(***************************************************************************)
(* transfers, deposits and callbacks handled one after the other: a        *)
(* request arrives when no handler is running                              *)
(***************************************************************************)
SequentialArrives(p) ==
    /\ attempts < MaxRequestsSequential
    /\ \A q \in Procs : pc[q] = "idle"
    /\ BeginTransfer(p) \/ BeginDeposit(p) \/ BeginCallback(p)

NextSequential ==
    \/ \E p \in Procs : SequentialArrives(p)
    \/ \E p \in Procs : TransferAuth(p)
    \/ \E p \in Procs : TransferRecipient(p)
    \/ \E p \in Procs : TransferDebit(p)
    \/ \E p \in Procs : TransferCredit(p)
    \/ \E p \in Procs : TransferComplete(p)
    \/ \E p \in Procs : TransferRollback(p)
    \/ \E p \in Procs : DepositAuth(p)
    \/ \E p \in Procs : DepositPush(p)
    \/ \E p \in Procs : DepositCreate(p)
    \/ \E p \in Procs : CallbackFind(p)
    \/ \E p \in Procs : CallbackStatus(p)
    \/ \E p \in Procs : CallbackCredit(p)
    \/ CacheExpire

SpecSequential == Init /\ [][NextSequential]_vars

(***************************************************************************)
(* DatabaseManager.get_user_by_account_number and update_user_balance      *)
(* (database.py 104-145) step by step, one step for each await, called by  *)
(* handlers that run concurrently.  cache_up tells whether the cache call  *)
(* of the step succeeds.  create_transfer reads only the existence and     *)
(* is_active of the record (see RecipientLookup); the callers here read    *)
(* its balance                                                             *)
(***************************************************************************)
\* the value a DatabaseManager call returns that is not a user record
Returned(value) == [NoResp EXCEPT !.detail = value]

BeginLookup(p) ==
    \E a \in Depositors :
        Begin(p, [NoReq EXCEPT !.kind = "lookup", !.to_account = a], "a_get")

\* lines 108-111: aget; a cached record is returned as it is
AccountGet(p, cache_up) ==
    /\ pc[p] = "a_get"
    /\ LET a == req[p].to_account
       IN  IF cache_up /\ account_cache[a] # <<>>
           THEN Return(p, [Returned("user") EXCEPT !.balance = account_cache[a][1]])
           ELSE Goto(p, "a_find", frame[p])
    /\ UNCHANGED <<store, cache, limiter, provider>>

\* lines 113-114 and 122-124: find_one; None when it raises
AccountFind(p) ==
    /\ pc[p] = "a_find"
    /\ \E db_up \in BOOLEAN :
        IF db_up
        THEN Goto(p, "a_fill", [frame[p] EXCEPT !.current_user = balance[req[p].to_account]])
        ELSE Return(p, Returned("None"))
    /\ UNCHANGED <<store, cache, limiter, provider>>

\* lines 116-121: aset of the record find_one returned, for 300 s, and the
\* return of that record
AccountFill(p, cache_up) ==
    /\ pc[p] = "a_fill"
    /\ account_cache' = IF cache_up
                        THEN [account_cache EXCEPT ![req[p].to_account] =
                                                       <<frame[p].current_user>>]
                        ELSE account_cache
    /\ Return(p, [Returned("user") EXCEPT !.balance = frame[p].current_user])
    /\ UNCHANGED <<store, user_cache, redis_up, session_state, tx_cache, limiter,
                   provider>>

BeginUpdate(p) ==
    \E a \in Depositors, amount_delta \in DepositAmounts :
        Begin(p, [NoReq EXCEPT !.kind = "update", !.to_account = a,
                               !.amount = amount_delta], "u_inc")

\* lines 128-137 and 142-145: the conditional $inc; False when nothing was
\* modified or update_one raised
BalanceInc(p) ==
    /\ pc[p] = "u_inc"
    /\ \E db_up \in BOOLEAN :
        /\ balance' = BalanceAfter(req[p].to_account, req[p].amount, db_up)
        /\ IF UpdateMatches(req[p].to_account, req[p].amount, db_up)
           THEN Goto(p, "u_invalidate", frame[p])
           ELSE Return(p, Returned("False"))
    /\ UNCHANGED <<auth_store, transactions, cache, limiter, provider>>

\* lines 138-140: adelete of user:account:<account_number>, then True
BalanceInvalidate(p, cache_up) ==
    /\ pc[p] = "u_invalidate"
    /\ account_cache' = IF cache_up
                        THEN [account_cache EXCEPT ![req[p].to_account] = <<>>]
                        ELSE account_cache
    /\ Return(p, Returned("True"))
    /\ UNCHANGED <<store, user_cache, redis_up, session_state, tx_cache, limiter,
                   provider>>

\* the 300 s of a user:account key are over
AccountCacheExpire ==
    /\ \E a \in Accounts :
        /\ account_cache[a] # <<>>
        /\ account_cache' = [account_cache EXCEPT ![a] = <<>>]
    /\ UNCHANGED <<store, user_cache, redis_up, session_state, tx_cache, limiter,
                   provider, pc, req, frame, resp>>

BalanceCacheArrives(p) ==
    /\ attempts < MaxRequestsBalanceCache
    /\ BeginLookup(p) \/ BeginUpdate(p)

\* Redis answers every call
NextBalanceCache ==
    \/ \E p \in Procs : BalanceCacheArrives(p)
    \/ \E p \in Procs : AccountGet(p, TRUE)
    \/ \E p \in Procs : AccountFind(p)
    \/ \E p \in Procs : AccountFill(p, TRUE)
    \/ \E p \in Procs : BalanceInc(p)
    \/ \E p \in Procs : BalanceInvalidate(p, TRUE)
    \/ AccountCacheExpire

SpecBalanceCache == Init /\ [][NextBalanceCache]_vars

(***************************************************************************)
(* login with multi-factor authentication, and the endpoints behind        *)
(* get_current_user called with the token of lines 480-483                 *)
(***************************************************************************)
BeginMfaLogin(p) ==
    \E e \in MfaEmails, pw \in Passwords, code \in MfaCodes :
        Begin(p, [NoReq EXCEPT !.kind = "login", !.user = e, !.password = pw,
                               !.mfa_code = code], "l_find")

\* a client sends the token it got with mfa_required=true to mpesa_deposit or
\* to get_transactions.  get_current_user (lines 191-215) reads "sub" of the
\* verified payload and nothing else of it
BeginPending(p) ==
    \E e \in mfa_tokens :
        \/ Begin(p, [NoReq EXCEPT !.kind = "deposit", !.user = e, !.to_account = e,
                                  !.amount = 500, !.mfa_pending = TRUE], "d_auth")
        \/ Begin(p, [NoReq EXCEPT !.kind = "list", !.user = e, !.mfa_pending = TRUE],
                 "g_auth")

MfaArrives(p) ==
    /\ attempts < MaxRequestsMfa
    /\ BeginMfaLogin(p) \/ BeginPending(p)

NextMfa ==
    \/ \E p \in Procs : MfaArrives(p)
    \/ \E p \in Procs : LoginFind(p)
    \/ \E p \in Procs : LoginWrite(p)
    \/ \E p \in Procs : DepositAuth(p)
    \/ \E p \in Procs : DepositPush(p)
    \/ \E p \in Procs : DepositCreate(p)
    \/ \E p \in Procs : ListAuth(p)
    \/ \E p \in Procs : ListRead(p)
    \/ CacheExpire

SpecMfa == Init /\ [][NextMfa]_vars

(***************************************************************************)
(* The handlers against the store alone: get_user_by_email without its     *)
(* cache calls (use_cache = False: database.py lines 90-92 and 99-102)     *)
(***************************************************************************)
StoreAloneTransferAuth(p) ==
    /\ pc[p] = "t_auth"
    /\ \E db_up \in BOOLEAN :
        LET u == req[p].user
        IN  IF ~(db_up /\ is_active[u])
            THEN Return(p, HttpError(401, "User not found or inactive"))
            ELSE IF req[p].amount > SingleLimit(role[u])
            THEN Return(p, HttpError(400, "Amount exceeds single transaction limit"))
            ELSE IF balance[u] < req[p].amount
            THEN Return(p, HttpError(400, "Insufficient funds"))
            ELSE Goto(p, "t_recipient", [frame[p] EXCEPT !.current_user = balance[u]])
    /\ UNCHANGED <<store, cache, limiter, provider>>

StoreAloneDepositAuth(p) ==
    /\ pc[p] = "d_auth"
    /\ \E db_up \in BOOLEAN :
        LET u == req[p].user
        IN  IF ~(db_up /\ is_active[u])
            THEN Return(p, HttpError(401, "User not found or inactive"))
            ELSE IF req[p].to_account # u
            THEN Return(p, HttpError(403, "Can only deposit to your own account"))
            ELSE Goto(p, "d_push", [frame[p] EXCEPT !.current_user = balance[u]])
    /\ UNCHANGED <<store, cache, limiter, provider>>

NextStoreAlone ==
    \/ \E p \in Procs : BeginTransfer(p)
    \/ \E p \in Procs : StoreAloneTransferAuth(p)
    \/ \E p \in Procs : TransferRecipient(p)
    \/ \E p \in Procs : TransferDebit(p)
    \/ \E p \in Procs : TransferCredit(p)
    \/ \E p \in Procs : TransferComplete(p)
    \/ \E p \in Procs : TransferRollback(p)
    \/ \E p \in Procs : BeginDeposit(p)
    \/ \E p \in Procs : StoreAloneDepositAuth(p)
    \/ \E p \in Procs : DepositPush(p)
    \/ \E p \in Procs : DepositCreate(p)
    \/ \E p \in Procs : BeginCallback(p)
    \/ \E p \in Procs : CallbackFind(p)
    \/ \E p \in Procs : CallbackStatus(p)
    \/ \E p \in Procs : CallbackCredit(p)
    \/ CacheExpire

\* the handlers with Redis unreachable
TransferArrivesCacheDown(p) == attempts < MaxRequestsCacheDown /\ BeginTransfer(p)
DepositArrivesCacheDown(p) == attempts < MaxRequestsCacheDown /\ BeginDeposit(p)
CallbackArrivesCacheDown(p) == attempts < MaxRequestsCacheDown /\ BeginCallback(p)

NextCacheDown ==
    \/ \E p \in Procs : TransferArrivesCacheDown(p)
    \/ \E p \in Procs : TransferAuth(p)
    \/ \E p \in Procs : TransferRecipient(p)
    \/ \E p \in Procs : TransferDebit(p)
    \/ \E p \in Procs : TransferCredit(p)
    \/ \E p \in Procs : TransferComplete(p)
    \/ \E p \in Procs : TransferRollback(p)
    \/ \E p \in Procs : DepositArrivesCacheDown(p)
    \/ \E p \in Procs : DepositAuth(p)
    \/ \E p \in Procs : DepositPush(p)
    \/ \E p \in Procs : DepositCreate(p)
    \/ \E p \in Procs : CallbackArrivesCacheDown(p)
    \/ \E p \in Procs : CallbackFind(p)
    \/ \E p \in Procs : CallbackStatus(p)
    \/ \E p \in Procs : CallbackCredit(p)
    \/ CacheExpire

SpecCacheDown == InitCacheDown /\ [][NextCacheDown]_vars

(***************************************************************************)
(* Properties                                                              *)
(***************************************************************************)
Returns(p) == pc[p] # "idle" /\ pc'[p] = "idle"

\* C1: in every reachable state, the states between a transfer's debit and its
\* credit or re-credit included, no account's stored balance is negative
C1_NoNegativeBalance == \A a \in Accounts : balance[a] >= 0

\* C1 witness: a transfer stands between its debit and its credit, the sender
\* can no longer afford the amount, and a second transfer of the same sender,
\* which passed the balance check, is about to issue its debit
C1_Witness ==
    \E p, q \in Procs :
        /\ p # q
        /\ pc[p] = "t_credit" /\ frame[p].sender_updated = "yes"
        /\ pc[q] = "t_debit" /\ req[q].user = req[p].user
        /\ balance[req[q].user] < req[q].amount

\* C2 (as claimed): a successful transfer that ran with no other request
\* interleaved leaves the sender with amount less, the recipient with amount
\* more, and the sum of the two balances unchanged
C2_Conservation ==
    [][\A p \in Procs :
        (pc[p] = "t_finish" /\ Returns(p) /\ resp'[p].status = 200 /\ frame[p].solo)
        => LET u == req[p].user
               to == req[p].to_account
               before == frame[p].before
           IN  /\ balance'[u] + req[p].amount = before[u]
               /\ balance'[to] = before[to] + req[p].amount
               /\ balance'[u] + balance'[to] = before[u] + before[to]]_vars

\* C3 (as claimed, for a transfer to another account that ran with no other
\* request interleaved): when the debit was applied and the credit failed, the
\* sender's balance at the return of the request is its balance right before
\* the debit
C3_SenderRestored ==
    [][\A p \in Procs :
        (pc[p] = "t_finish" /\ Returns(p) /\ frame[p].solo
            /\ req[p].to_account # req[p].user
            /\ frame[p].sender_updated = "yes" /\ frame[p].recipient_updated = "no")
        => balance'[req[p].user] = frame[p].before[req[p].user]]_vars

\* C4 (as claimed): a success callback delivered for a transaction that an
\* earlier delivery already completed changes no balance, is acknowledged with
\* success and leaves the transaction completed
C4_CreditOnce ==
    [][\A p \in Procs :
        (pc[p] = "c_credit" /\ Returns(p) /\ frame[p].transaction_status = "completed")
        => /\ balance' = balance
           /\ resp'[p].ResultCode = 0
           /\ transactions'[frame[p].transaction].status = "completed"]_vars

\* C5 (as claimed): a callback whose CheckoutRequestID matches no pending
\* transaction is answered with ResultCode 1 and changes no balance and no
\* transaction record
PendingWithCode(id) ==
    \E i \in 1..Len(transactions) :
        transactions[i].mpesa_code = id /\ transactions[i].status = "pending"

C5_UnknownIsNoOp ==
    [][\A p \in Procs :
        (pc[p] = "c_find" /\ pc'[p] # "c_find" /\ ~PendingWithCode(req[p].code))
        => /\ Returns(p)
           /\ resp'[p].ResultCode = 1
           /\ UNCHANGED <<balance, transactions>>]_vars

\* C6 (as claimed): a transaction whose status is completed or failed keeps
\* that status in every later state
C6_StatusMonotonic ==
    [][\A i \in 1..Len(transactions) :
        transactions[i].status \in {"completed", "failed"}
        => transactions'[i].status = transactions[i].status]_vars

\* C7 (as claimed): when a transfer request to another account returns and its
\* debit was applied, the credit was applied to the recipient or the re-credit
\* is applied to the sender
C7_DebitAccounted ==
    [][\A p \in Procs :
        (req[p].kind = "transfer" /\ Returns(p) /\ frame[p].sender_updated = "yes"
            /\ req[p].to_account # req[p].user)
        => \/ frame[p].recipient_updated = "yes"
           \/ balance'[req[p].user] = balance[req[p].user] + req[p].amount]_vars

\* C8: a debit attempted with an amount above the sender's stored balance
\* applies nothing, and the handler then answers 400 "Insufficient funds"
\* without changing a balance or writing a record
C8_InsufficientFunds ==
    [][\A p \in Procs :
        /\ (pc[p] = "t_debit" /\ pc'[p] # "t_debit"
                /\ req[p].amount > balance[req[p].user])
           => /\ balance' = balance
              /\ transactions' = transactions
              /\ pc'[p] = "t_credit"
              /\ frame'[p].sender_updated = "no"
        /\ (pc[p] = "t_credit" /\ pc'[p] # "t_credit"
                /\ frame[p].sender_updated = "no")
           => /\ Returns(p)
              /\ resp'[p].status = 400
              /\ resp'[p].detail = "Insufficient funds"
              /\ balance' = balance
              /\ transactions' = transactions]_vars

\* C8 witness: the record get_current_user returned showed enough money, the
\* debit was attempted with an amount above the stored balance and did not
\* apply
C8_Witness ==
    \E p \in Procs :
        /\ pc[p] = "t_credit"
        /\ frame[p].sender_updated = "no"
        /\ frame[p].current_user >= req[p].amount
        /\ req[p].amount > frame[p].before[req[p].user]
        /\ balance = frame[p].before

\* C9 (as claimed): when the credit fails and the sender is re-credited, the
\* request fails with the recipient-update-failed error and a record of the
\* transfer with status failed is written
C9_FailedRecord ==
    [][\A p \in Procs :
        (pc[p] = "t_finish" /\ Returns(p) /\ frame[p].recipient_updated = "no"
            /\ req[p].to_account # req[p].user
            /\ balance'[req[p].user] = balance[req[p].user] + req[p].amount)
        => /\ resp'[p].status = 500
           /\ resp'[p].detail = "Transfer failed - recipient update failed"
           /\ transactions' = Append(transactions, TransferRecord(p, "failed"))]_vars

\* C10 (as claimed): every request to the callback endpoint is answered with
\* HTTP 200 and the acknowledgment {ResultCode: 0 or 1, ResultDesc}
C10_AlwaysAcknowledged ==
    \A p \in Procs :
        resp[p].route = "callback"
        => resp[p].status = 200 /\ resp[p].ResultCode \in {0, 1}

\* C11: a failure callback never changes a balance, and when it finds a
\* pending deposit record and is acknowledged with success it has set that
\* record's status to failed and its failure reason to the ResultDesc the
\* provider sent ("Unknown error" when it sent none)
C11_FailureCallback ==
    [][\A p \in Procs :
        (req[p].kind = "callback" /\ req[p].result_code # 0 /\ pc'[p] # pc[p])
        => /\ balance' = balance
           /\ (pc[p] = "c_status" /\ resp'[p].ResultCode = 0
                   /\ transactions[FindByCode(req[p].code)].status = "pending")
              => LET i == FindByCode(req[p].code)
                 IN  /\ transactions'[i].status = "failed"
                     /\ transactions'[i].failure_reason = FailureReason(req[p].result_desc)
                     /\ transactions'[i].transaction_type = "mpesa_deposit"
                     /\ \A j \in 1..Len(transactions) \ {i} :
                            transactions'[j] = transactions[j]]_vars

\* C11 witness: a failure callback carrying the provider's reason has been
\* acknowledged with success, and the deposit it names is failed with that
\* reason while the depositor's balance is the opening balance
C11_Witness ==
    \E p \in Procs, i \in 1..Len(transactions) :
        /\ resp[p].route = "callback" /\ resp[p].ResultCode = 0
        /\ transactions[i].status = "failed"
        /\ transactions[i].failure_reason = "Request cancelled by user"
        /\ transactions[i].mpesa_receipt_number = NoCode
        /\ balance[transactions[i].to_account] = CustomerOpeningBalance

\* C12 (as claimed): when a success callback that found its deposit pending is
\* acknowledged with success, the record is completed and the destination
\* account's balance has been increased by the credited amount
C12_CompletedMeansCredited ==
    [][\A p \in Procs :
        (pc[p] = "c_credit" /\ Returns(p) /\ resp'[p].ResultCode = 0
            /\ frame[p].transaction_status = "pending")
        => LET t == transactions[frame[p].transaction]
           IN  /\ t.status = "completed"
               /\ balance'[t.to_account] =
                      balance[t.to_account] + CreditAmount(req[p].cb_amount, t.amount)]_vars

\* C13 (as claimed): a deposit whose bearer-credential call or STK-push call
\* failed, so that the handler holds no CheckoutRequestID, ends with HTTP 503
\* at that call and is never answered as a sent STK push
C13_ProviderUnavailable ==
    [][\A p \in Procs :
        /\ (pc[p] = "d_push" /\ pc'[p] # "d_push" /\ frame'[p].checkout = NoCode)
           => Returns(p) /\ resp'[p].status = 503
        /\ (pc[p] = "d_record" /\ Returns(p) /\ frame[p].checkout = NoCode)
           => resp'[p].detail # "STK Push sent to your phone"]_vars

\* C14 (as claimed): a deposit whose STK-push call times out after the provider
\* accepted the payment request is answered with HTTP 503, and a success
\* callback carrying that request's CheckoutRequestID, unless the store raises
\* while it is handled, credits the destination account with the paid amount
C14_TimeoutReconciled ==
    [][\A p \in Procs :
        /\ (pc[p] = "d_push" /\ timed_out' # timed_out)
           => Returns(p) /\ resp'[p].status = 503
        /\ \A t \in timed_out :
              (req[p].kind = "callback" /\ req[p].body = "json" /\ req[p].code = t.code
                  /\ req[p].result_code = 0 /\ Returns(p)
                  /\ resp'[p].detail # "Internal server error")
              => balance'[t.to_account] =
                     balance[t.to_account] + CreditAmount(req[p].cb_amount, t.amount)]_vars

\* C15: with Redis unreachable every cache get is a miss (also for a key that
\* is stored), no handler step writes or deletes a cache key, and every step
\* of a transfer, a deposit initiation or a callback is the step the handler
\* takes against the store alone: same balances, records and responses
C15_CacheDownIsStoreAlone ==
    [][/\ NextStoreAlone
       /\ \A u \in Accounts, cache_up \in CacheReplies : ~CacheHit(u, cache_up)
       /\ \A u \in Accounts : user_cache'[u] \in {user_cache[u], <<>>}]_vars

\* C15 witness: Redis is unreachable, a stale record of the sender is still
\* stored under its key, and a transfer has passed the balance check with the
\* balance of the store
C15_Witness ==
    \E p \in Procs :
        /\ ~redis_up
        /\ pc[p] = "t_recipient"
        /\ user_cache[req[p].user] # <<>>
        /\ user_cache[req[p].user] # <<balance[req[p].user]>>
        /\ frame[p].current_user = balance[req[p].user]

\* C16 (as claimed): a transaction record is written after its creation by at
\* most one operation: its completed_at is set at most once
C16_ModifiedAtMostOnce ==
    \A i \in 1..Len(transactions) : transactions[i].completed_at <= 1

\* C17: when the debit and the credit of a transfer both applied, the request
\* is answered 200 "Transfer successful" and the step leaves every balance as
\* the two updates made it, whether or not the record is inserted; the
\* collection gains nothing or exactly one record of this transfer with status
\* completed, and the response carries a transaction id exactly when it did
C17_SuccessWithoutRecord ==
    [][\A p \in Procs :
        (pc[p] = "t_finish" /\ pc'[p] # "t_finish"
            /\ frame[p].sender_updated = "yes" /\ frame[p].recipient_updated = "yes")
        => /\ Returns(p)
           /\ resp'[p].status = 200
           /\ resp'[p].detail = "Transfer successful"
           /\ balance' = balance
           /\ \/ transactions' = transactions /\ resp'[p].transaction_id = 0
              \/ /\ transactions' = Append(transactions, TransferRecord(p, "completed"))
                 /\ resp'[p].transaction_id = Len(transactions')]_vars

\* C17 witness: a transfer of 600 from X to Y has been answered 200 without a
\* transaction id, no record exists, and both balance changes are in place
C17_Witness ==
    \E p \in Procs :
        /\ resp[p].route = "transfer" /\ resp[p].status = 200
        /\ resp[p].transaction_id = 0
        /\ transactions = <<>>
        /\ balance["X"] = CustomerOpeningBalance - 600
        /\ balance["Y"] = AdminOpeningBalance + 600

\* C18 (as claimed): a transfer whose credit failed and whose re-credit of the
\* sender did not apply either is not answered with the ordinary
\* recipient-update-failed error
C18_CompensationFailureEscalated ==
    [][\A p \in Procs :
        (pc[p] = "t_finish" /\ Returns(p) /\ frame[p].recipient_updated = "no"
            /\ req[p].to_account # req[p].user
            /\ balance'[req[p].user] = balance[req[p].user])
        => resp'[p].detail # "Transfer failed - recipient update failed"]_vars

BalanceOps(p) ==
    \/ req[p].kind = "transfer" /\ pc[p] \in {"t_debit", "t_credit", "t_finish"}
    \/ req[p].kind = "callback" /\ req[p].result_code = 0 /\ pc[p] = "c_credit"

C19_BalanceFrame ==
    [][/\ DOMAIN balance \subseteq DOMAIN balance'
       /\ (\E a \in DOMAIN balance : balance'[a] # balance[a])
          => \E p \in Procs : pc'[p] # pc[p] /\ BalanceOps(p)
       /\ \A p \in Procs :
            (pc'[p] # pc[p] /\ pc[p] # "idle" /\ ~BalanceOps(p))
            => \A a \in DOMAIN balance : balance'[a] = balance[a]
       /\ login_attempt_docs' # login_attempt_docs
          => \A a \in DOMAIN balance : balance'[a] = balance[a]]_vars

\* C19 witness: another user has been registered, a login of X has failed and
\* is counted in X's document, and the balances of the accounts that existed
\* before are the opening balances
C19_Witness ==
    /\ NumNew = 1
    /\ login_attempts["X"] = 1
    /\ \A a \in Accounts :
          balance[a] = IF role[a] = "customer" THEN CustomerOpeningBalance
                                               ELSE AdminOpeningBalance

\* C21: a deposit initiation whose account_number is not the caller's own
\* account number ends at the own-account check: it is answered 403 (401 when
\* get_current_user finds no record of the caller), and no step of it sends a
\* payment request to the provider, writes a transaction record or changes a
\* balance
C21_ForeignDepositRejected ==
    [][\A p \in Procs :
        (req[p].kind = "deposit" /\ req[p].to_account # req[p].user /\ pc'[p] # pc[p])
        => /\ pc[p] = "d_auth"
           /\ Returns(p)
           /\ \/ /\ resp'[p].status = 403
                 /\ resp'[p].detail = "Can only deposit to your own account"
              \/ /\ resp'[p].status = 401
                 /\ resp'[p].detail = "User not found or inactive"
           /\ UNCHANGED <<provider, transactions, balance>>]_vars

\* C21 witness: X's deposit to Y's account has been answered 403; the provider
\* has issued no CheckoutRequestID and no record exists
C21_Witness ==
    \E p \in Procs :
        /\ resp[p].route = "deposit" /\ resp[p].status = 403
        /\ issued = 0 /\ timed_out = {}
        /\ transactions = <<>>

\* C22 (as claimed): a registration that finishes when a user with its email is
\* already registered, whether that user was registered before the request
\* arrived or by a registration running at the same time, is answered 400 and
\* adds no user record
C22_DuplicateRejected ==
    [][\A p \in Procs :
        (req[p].kind = "register" /\ Returns(p) /\ FindByEmail(req[p].user) # NoCode)
        => /\ resp'[p].status = 400
           /\ DOMAIN balance' = DOMAIN balance]_vars

\* C23 (as claimed): a well-formed success callback (a JSON body with a
\* CheckoutRequestID, ResultCode 0 and the Amount item), also one whose
\* CheckoutRequestID no deposit initiation produced, is answered with HTTP 200
\* and, unless the store raises while it is handled, ResultCode 0
C23_SuccessCallbackAcknowledged ==
    [][\A p \in Procs :
        (req[p].kind = "callback" /\ req[p].body = "json" /\ req[p].code # MissingCode
            /\ req[p].result_code = 0 /\ req[p].cb_amount = <<500>> /\ Returns(p))
        => /\ resp'[p].status = 200
           /\ resp'[p].ResultCode = 0 \/ resp'[p].detail = "Internal server error"]_vars

\* C24 (as claimed): when the logins answered 401 for a wrong password since
\* the account's last successful login reach max_login_attempts, in whatever
\* order their steps interleaved, the account's locked_until is set; and a
\* login whose lookup finds locked_until set and not yet reached, the correct
\* password included, is answered 423 (500 when the store raises on the
\* login_attempts document) and changes nothing but the login_attempts
\* collection
C24_LockedAfterMaxAttempts ==
    [][/\ \A e \in Emails :
            (failed_logins'[e] # failed_logins[e] /\ failed_logins'[e] >= max_login_attempts)
            => locked_until'[FindByEmail(e)]
       /\ \A p \in Procs :
            (pc[p] = "l_write" /\ frame[p].locked /\ pc'[p] # pc[p])
            => /\ Returns(p)
               /\ resp'[p].status \in {423, 500}
               /\ UNCHANGED <<login_attempts, locked_until, session_state>>]_vars

\* C25 (as claimed): when a logout has been answered and its cache calls went
\* through, no session key of that user exists any more, whatever logins,
\* get_session calls and key expiries came before
C25_NoSessionAfterLogout ==
    [][\A p \in Procs :
        (pc[p] = "o_auth" /\ Returns(p) /\ resp'[p].status = 200
            /\ delete_user_sessions(req[p].user, TRUE))
        => \A k \in session_keys' : k.user_id # req[p].user]_vars

\* C26 (as claimed): a listing of an account's transactions (first page,
\* default limit, no filter) that is answered with the cached result counts
\* every record of the account create_transaction has inserted: no result
\* cached before a record was created is served after it
C26_ListingIncludesCreated ==
    [][\A p \in Procs :
        LET u == req[p].user
        IN  (pc[p] = "g_read" /\ Returns(p) /\ tx_cache[u] # <<>>
                /\ resp'[p].total_count = tx_cache[u][1])
            => resp'[p].total_count = TotalCount(u)]_vars

\* C27: for a user with mfa_enabled, login hands out a full token only when
\* the MFA code it was sent is valid, and a request that carries the temporary
\* token (mfa_pending) is rejected by get_current_user with 401: it never
\* gets past the authentication of a protected endpoint
C27_TempTokenRejected ==
    [][\A p \in Procs :
        /\ (req[p].kind = "login" /\ Returns(p) /\ resp'[p].detail = "bearer"
                /\ mfa_enabled(req[p].user))
           => req[p].mfa_code = "valid"
        /\ (req[p].mfa_pending /\ pc'[p] # pc[p])
           => (Returns(p) /\ resp'[p].status = 401)]_vars

\* C28: when requests are handled one after the other (so that the balance
\* at request time is the one the handler could read, and nothing debits the
\* sender meanwhile), a transfer whose amount is at most the balance the store
\* holds for the sender is not answered "Insufficient funds"
C28_CoveredTransferNotRefused ==
    [][\A p \in Procs :
        (/\ pc[p] = "t_auth"
         /\ Returns(p)
         /\ req[p].amount <= balance[req[p].user])
        => resp'[p].detail # "Insufficient funds"]_vars

\* C29: a success callback for a CheckoutRequestID the provider issued and
\* answered in time, delivered while mpesa_deposit is about to insert the
\* pending record or after it has, reaches the credit of the destination
\* account (which applies unless the store fails), unless the store raises
C29_CallbackAfterAcceptanceCredits ==
    [][\A p \in Procs :
        LET code == req[p].code
        IN  (/\ req[p].kind = "callback"
             /\ req[p].body = "json"
             /\ req[p].result_code = 0
             /\ req[p].cb_amount = <<500>>
             /\ Returns(p)
             /\ \E n \in 1..issued : code = CheckoutRequestID(n)
             /\ \A t \in timed_out : t.code # code
             /\ \/ FindByCode(code) # 0
                \/ \E q \in Procs : pc[q] = "d_record" /\ frame[q].checkout = code)
            => \/ resp'[p].detail = "Internal server error"
               \/ /\ pc[p] = "c_credit"
                  /\ \/ balance' = balance
                     \/ \E a \in DOMAIN balance :
                            balance' = [balance EXCEPT ![a] = @ + 500]]_vars

\* C30: a get_user_by_account_number(A) that reads the cache while no
\* update_user_balance is under way (every update of A has returned, and none
\* follows before the read) returns the balance the store holds for A
C30_LookupReturnsUpdatedBalance ==
    [][\A p \in Procs :
        (/\ pc[p] = "a_get"
         /\ Returns(p)
         /\ \A q \in Procs : req[q].kind # "update")
        => resp'[p].balance = balance[req[p].to_account]]_vars

====
